---- MODULE Spec2Model ----
(***************************************************************************)
(* Model of parquet-file-sizes/make-files.py: the function make_df and the  *)
(* twelve top-level statements that call it, write its result with          *)
(* to_parquet and evaluate its shape.                                       *)
(*                                                                          *)
(* The program counter pc is the source line of the next statement to run   *)
(* (0: nothing left to run).  A DataFrame is held column-wise, as the code   *)
(* builds it: the list of product() pools the six enumerated columns were    *)
(* read from, the timedelta unit of the target_date column, and the place    *)
(* in the generator's stream the value column was drawn from.  Iloc(df, i)   *)
(* is the row at 0-based position i.  Timestamps are seconds since the      *)
(* epoch.                                                                   *)
(***************************************************************************)
EXTENDS Integers, Sequences, FiniteSets, TLC

VARIABLES pc, frame, caller, dfs, result, raised, fs, writes, displayed, rng, mode

vars == <<pc, frame, caller, dfs, result, raised, fs, writes, displayed, rng, mode>>

(* ------------------------------ bounds --------------------------------- *)

\* n_samples of a direct call of make_df ranges over -1..MaxSamples
MaxSamples == 2

(* --------------------------- library helpers --------------------------- *)

None == "None"

Digit == <<"0", "1", "2", "3", "4", "5", "6", "7", "8", "9">>

\* str(n) of a non-negative integer: its decimal digits
RECURSIVE Str(_)
Str(n) == IF n < 10 THEN Digit[n + 1] ELSE Str(n \div 10) \o Digit[(n % 10) + 1]

\* np.arange(start, stop): start, start+1, ..., stop-1 (empty when stop <= start)
Arange(start, stop) ==
  [k \in 1..(IF stop > start THEN stop - start ELSE 0) |-> start + k - 1]

\* ndarray.astype('str') of an integer array
AsStr(a) == [k \in 1..Len(a) |-> Str(a[k])]

Front(s) == SubSeq(s, 1, Len(s) - 1)

\* len(list(product(*pools))): itertools.product builds its result pool by
\* pool, result = [x + [y] for x in result for y in pool], starting from [[]]
RECURSIVE ProductLen(_)
ProductLen(pools) ==
  IF pools = <<>> THEN 1
  ELSE ProductLen(Front(pools)) * Len(pools[Len(pools)])

\* ProductAt with the first pool, not the last, advancing on every element
RECURSIVE ProductAtFirstFastest(_, _)
ProductAtFirstFastest(pools, i) ==
  IF pools = <<>> THEN <<>>
  ELSE LET pool == pools[1]
       IN  <<pool[(i % Len(pool)) + 1]>> \o ProductAtFirstFastest(Tail(pools), i \div Len(pool))

\* list(product(*pools))[i], 0-based: in [x + [y] for x in result for y in pool]
\* the element at i is x = result[i div len(pool)] extended by y = pool[i mod len(pool)]
RECURSIVE ProductAt(_, _)
ProductAt(pools, i) ==
  IF pools = <<>> THEN <<>>
  ELSE LET pool == pools[Len(pools)]
       IN  Append(ProductAt(Front(pools), i \div Len(pool)), pool[(i % Len(pool)) + 1])

\* days from 1970-01-01 to the proleptic Gregorian date y-m-d
DaysFromCivil(y, m, d) ==
  LET yy  == IF m <= 2 THEN y - 1 ELSE y
      era == yy \div 400
      yoe == yy - era * 400
      mp  == IF m > 2 THEN m - 3 ELSE m + 9
      doy == (153 * mp + 2) \div 5 + d - 1
      doe == yoe * 365 + yoe \div 4 - yoe \div 100 + doy
  IN  era * 146097 + doe - 719468

SecondsPerDay == 86400

\* pd.to_datetime('YYYY-MM-DD'): the Timestamp of that date's midnight, here in
\* seconds since the epoch
ToDatetime(y, m, d) == DaysFromCivil(y, m, d) * SecondsPerDay

\* str.lower() on the one-letter units the model passes
Lower(u) ==
  CASE u = "D" -> "d"
    [] u = "W" -> "w"
    [] u = "H" -> "h"
    [] u = "M" -> "m"
    [] u = "S" -> "s"
    [] u = "X" -> "x"
    [] OTHER   -> u

\* pandas parse_timedelta_unit: "M" is kept, anything else is lower-cased and
\* looked up in the table of abbreviations; None when the lookup fails
\* (ValueError: invalid unit abbreviation)
ParseTimedeltaUnit(u) ==
  IF u = "M" THEN "M"
  ELSE CASE Lower(u) = "w" -> "W"
         [] Lower(u) = "d" -> "D"
         [] Lower(u) = "h" -> "h"
         [] Lower(u) = "m" -> "m"
         [] Lower(u) = "s" -> "s"
         [] OTHER          -> None

\* whether pd.to_timedelta accepts the unit: it lets the ValueError of
\* parse_timedelta_unit through and itself rejects "M"
IsTimedeltaUnit(u) == ParseTimedeltaUnit(u) \in {"W", "D", "h", "m", "s"}

\* UnitSeconds with a week taken for a day
UnitSecondsWeekAsDay(u) ==
  LET p == ParseTimedeltaUnit(u)
  IN  CASE p = "W" -> SecondsPerDay
        [] p = "D" -> SecondsPerDay
        [] p = "h" -> 3600
        [] p = "m" -> 60
        [] p = "s" -> 1

\* seconds in one unit of an accepted timedelta unit
UnitSeconds(u) ==
  LET p == ParseTimedeltaUnit(u)
  IN  CASE p = "W" -> 7 * SecondsPerDay
        [] p = "D" -> SecondsPerDay
        [] p = "h" -> 3600
        [] p = "m" -> 60
        [] p = "s" -> 1

(* ------------------------------- make_df -------------------------------- *)

\* the value of a name not bound to any DataFrame (a table the code builds
\* has at least the six enumerated columns)
NoDf == [columns |-> <<>>, records |-> <<>>, nrows |-> 0, unit_seconds |-> 0, value |-> <<>>]

NoFrame == [temp_scale |-> None, n_samples |-> 0, horizons |-> <<>>, df |-> NoDf]

\* Horizons with the stop of each range taken as its last element
HorizonsStopInclusive(temp_scale) ==
  IF temp_scale = "d" THEN Arange(-27, 7) ELSE Arange(-4, 1)

\* lines 8-11: the horizons of a temporal scale
Horizons(temp_scale) ==
  IF temp_scale = "d" THEN Arange(-27, 8) ELSE Arange(-4, 2)

\* Pools with the locations numbered from 1
PoolsFromOne(horizons, n_samples) ==
  << <<ToDatetime(2024, 1, 26)>>,
     horizons,
     AsStr(Arange(1, 51)),
     AsStr(Arange(0, 30)),
     <<"sample">>,
     Arange(0, n_samples) >>

\* lines 14-21: the six iterables handed to product()
Pools(horizons, n_samples) ==
  << <<ToDatetime(2024, 1, 26)>>,
     horizons,
     AsStr(Arange(0, 50)),
     AsStr(Arange(0, 30)),
     <<"sample">>,
     Arange(0, n_samples) >>

RecordColumns ==
  <<"nowcast_date", "horizon", "location", "lineage", "output_type", "output_type_id">>

\* lines 13-23: DataFrame.from_records(list(product(...)), columns = [...])
FromRecords(pools, columns) ==
  [columns |-> columns, records |-> pools, nrows |-> ProductLen(pools),
   unit_seconds |-> 0, value |-> <<>>]

\* df.shape
Shape(df) == <<df.nrows, Len(df.columns)>>

\* df.iloc[i]: the row at 0-based position i, one field per column; the cell
\* of the value column is the number, in the generator's stream, of the
\* variate it holds
Iloc(df, i) ==
  LET rec == ProductAt(df.records, i)
      cell(k) ==
        IF k <= Len(RecordColumns) THEN rec[k]
        ELSE IF df.columns[k] = "target_date" THEN rec[1] + rec[2] * df.unit_seconds
        ELSE df.value[1] + i
  IN  [c \in {df.columns[k] : k \in 1..Len(df.columns)} |->
         cell(CHOOSE k \in 1..Len(df.columns) : df.columns[k] = c)]

\* line 25: df['target_date'] = df['nowcast_date'] + pd.to_timedelta(df['horizon'], temp_scale)
WithTargetDate(df, temp_scale) ==
  [df EXCEPT !.columns = Append(@, "target_date"), !.unit_seconds = UnitSeconds(temp_scale)]

\* StandardNormal drawing from a generator of the call's own, fresh each time
StandardNormalLocal(g, n) == [values |-> <<0>>, rng |-> g]

\* np.random.standard_normal(n): the next n variates of the module-level
\* generator, which nothing seeds.  The generator g is the number of variates
\* drawn from its stream so far; the n variates are held as <<g>>, the place
\* of the first of them in the stream
StandardNormal(g, n) == [values |-> <<g>>, rng |-> g + n]

\* line 26: df['value'] = np.random.standard_normal(df.shape[0])
WithValue(df, drawn) ==
  [df EXCEPT !.columns = Append(@, "value"), !.value = drawn]

\* lines 8-11
SelectHorizons ==
  /\ pc = 8
  /\ frame' = [frame EXCEPT !.horizons = Horizons(frame.temp_scale)]
  /\ pc' = 13
  /\ UNCHANGED <<caller, dfs, result, raised, fs, writes, displayed, rng, mode>>

\* lines 13-23
BuildRecords ==
  /\ pc = 13
  /\ frame' = [frame EXCEPT !.df = FromRecords(Pools(frame.horizons, frame.n_samples), RecordColumns)]
  /\ pc' = 25
  /\ UNCHANGED <<caller, dfs, result, raised, fs, writes, displayed, rng, mode>>

\* line 25; an unit pd.to_timedelta rejects raises ValueError, which nothing catches
AddTargetDate ==
  /\ pc = 25
  /\ IF ~IsTimedeltaUnit(frame.temp_scale)
     THEN /\ raised' = "ValueError"
          /\ frame' = NoFrame
          /\ pc' = 0
     ELSE /\ frame' = [frame EXCEPT !.df = WithTargetDate(frame.df, frame.temp_scale)]
          /\ pc' = 26
          /\ UNCHANGED raised
  /\ UNCHANGED <<caller, dfs, result, fs, writes, displayed, rng, mode>>

\* line 26
AddValue ==
  /\ pc = 26
  /\ LET drawn == StandardNormal(rng, Shape(frame.df)[1])
     IN  /\ frame' = [frame EXCEPT !.df = WithValue(frame.df, drawn.values)]
         /\ rng' = drawn.rng
  /\ pc' = 28
  /\ UNCHANGED <<caller, dfs, result, raised, fs, writes, displayed, mode>>

\* line 28, make_df called directly: the caller receives df
ReturnToCaller ==
  /\ pc = 28
  /\ caller.site = 0
  /\ result' = frame.df
  /\ frame' = NoFrame
  /\ pc' = 0
  /\ UNCHANGED <<caller, dfs, raised, fs, writes, displayed, rng, mode>>

(* ------------------------------ the script ------------------------------ *)

\* lines 31, 35, 39, 43: the line of the k-th call and its arguments
CallLine(k) == 31 + 4 * (k - 1)

\* CallArgs with the third call's arguments repeated in the fourth
CallArgsRepeated(k) ==
  CASE k = 1 -> <<"d", 100>>
    [] k = 2 -> <<"d", 500>>
    [] k = 3 -> <<"w", 100>>
    [] k = 4 -> <<"w", 100>>

CallArgs(k) ==
  CASE k = 1 -> <<"d", 100>>
    [] k = 2 -> <<"d", 500>>
    [] k = 3 -> <<"w", 100>>
    [] k = 4 -> <<"w", 500>>

Calls == 1..4

\* the call in progress or last made: its site (a statement of the script, or
\* 0 for a direct call) and the arguments passed
NoCall == [site |-> 0, temp_scale |-> None, n_samples |-> 0]

\* ExamplePath with the third and fourth paths exchanged
ExamplePathSwapped(k) ==
  CASE k = 1 -> "parquet-file-sizes/example1.parquet"
    [] k = 2 -> "parquet-file-sizes/example2.parquet"
    [] k = 3 -> "parquet-file-sizes/example4.parquet"
    [] k = 4 -> "parquet-file-sizes/example3.parquet"

\* lines 32, 36, 40, 44: the path the k-th table is written to
ExamplePath(k) ==
  CASE k = 1 -> "parquet-file-sizes/example1.parquet"
    [] k = 2 -> "parquet-file-sizes/example2.parquet"
    [] k = 3 -> "parquet-file-sizes/example3.parquet"
    [] k = 4 -> "parquet-file-sizes/example4.parquet"

Paths == {ExamplePath(k) : k \in Calls}

\* what a path of the file system holds: nothing, a file left by an earlier
\* run, or a table written by this run
Absent == [kind |-> "absent", table |-> NoDf]
Stale == [kind |-> "stale", table |-> NoDf]
Written(df) == [kind |-> "table", table |-> df]

\* dfK = make_df(...): the call enters make_df
CallMakeDf(k) ==
  /\ pc = CallLine(k)
  /\ caller' = [site |-> k, temp_scale |-> CallArgs(k)[1], n_samples |-> CallArgs(k)[2]]
  /\ frame' = [NoFrame EXCEPT !.temp_scale = CallArgs(k)[1], !.n_samples = CallArgs(k)[2]]
  /\ pc' = 8
  /\ UNCHANGED <<dfs, result, raised, fs, writes, displayed, rng, mode>>

\* line 28, make_df called by the script: the result is bound to dfK
ReturnToScript ==
  /\ pc = 28
  /\ caller.site \in Calls
  /\ dfs' = [dfs EXCEPT ![caller.site] = frame.df]
  /\ frame' = NoFrame
  /\ pc' = CallLine(caller.site) + 1
  /\ UNCHANGED <<caller, result, raised, fs, writes, displayed, rng, mode>>

\* dfK.to_parquet(path): the file at path is replaced by the table; without
\* the directory the write raises OSError, which nothing catches
ToParquet(k) ==
  /\ pc = CallLine(k) + 1
  /\ IF fs.dir
     THEN /\ fs' = [fs EXCEPT !.files[ExamplePath(k)] = Written(dfs[k])]
          /\ writes' = Append(writes, ExamplePath(k))
          /\ pc' = CallLine(k) + 2
          /\ UNCHANGED raised
     ELSE /\ raised' = "OSError"
          /\ pc' = 0
          /\ UNCHANGED <<fs, writes>>
  /\ UNCHANGED <<frame, caller, dfs, result, displayed, rng, mode>>

\* dfK.shape as an expression statement: its value is handed to
\* sys.displayhook only in interactive mode, and dropped when the file runs
\* as a script
ShapeStatement(k) ==
  /\ pc = CallLine(k) + 2
  /\ displayed' = IF mode = "interactive" THEN Append(displayed, Shape(dfs[k])) ELSE displayed
  /\ pc' = IF k < 4 THEN CallLine(k + 1) ELSE 0
  /\ UNCHANGED <<frame, caller, dfs, result, raised, fs, writes, rng, mode>>

(* ---------------------------- specifications ---------------------------- *)

FileSystems ==
  {[dir |-> FALSE, files |-> [p \in Paths |-> Absent]]}
  \cup {[dir |-> TRUE, files |-> [p \in Paths |-> IF p \in old THEN Stale ELSE Absent]] :
          old \in SUBSET Paths}

\* the state as the interpreter reaches line 31
Init ==
  /\ pc = 31
  /\ frame = NoFrame
  /\ caller = NoCall
  /\ dfs = [k \in Calls |-> NoDf]
  /\ result = NoDf
  /\ raised = None
  /\ fs \in FileSystems
  /\ writes = <<>>
  /\ displayed = <<>>
  /\ rng = 0
  /\ mode \in {"script", "interactive"}

Next ==
  \/ \E k \in Calls : CallMakeDf(k)
  \/ SelectHorizons
  \/ BuildRecords
  \/ AddTargetDate
  \/ AddValue
  \/ ReturnToScript
  \/ \E k \in Calls : ToParquet(k)
  \/ \E k \in Calls : ShapeStatement(k)

Spec == Init /\ [][Next]_vars

\* the arguments of a direct call of make_df
Scales == {"d", "w", "D", "W", "h", "x", "M"}

SampleCounts == -1..MaxSamples

\* the state as a direct call make_df(temp_scale, n_samples) enters the function
InitMakeDf ==
  /\ pc = 8
  /\ caller \in [site : {0}, temp_scale : Scales, n_samples : SampleCounts]
  /\ frame = [NoFrame EXCEPT !.temp_scale = caller.temp_scale, !.n_samples = caller.n_samples]
  /\ dfs = [k \in Calls |-> NoDf]
  /\ result = NoDf
  /\ raised = None
  /\ fs = [dir |-> TRUE, files |-> [p \in Paths |-> Absent]]
  /\ writes = <<>>
  /\ displayed = <<>>
  /\ rng = 0
  /\ mode = "script"

NextMakeDf ==
  \/ SelectHorizons
  \/ BuildRecords
  \/ AddTargetDate
  \/ AddValue
  \/ ReturnToCaller

SpecMakeDf == InitMakeDf /\ [][NextMakeDf]_vars

(* -------------------- claims about make_df (SpecMakeDf) ------------------ *)

\* a direct call has come back with a table
Returned == pc = 0 /\ raised = None /\ result # NoDf

\* a direct call has ended, by a return or by an exception
Ended == pc = 0

RowIndex(df) == 0..(df.nrows - 1)

\* C1: for every positive sample count N, make_df('d', N) returns a table of
\* exactly 35 * 50 * 30 * N rows and 8 columns, and make_df('w', N) one of
\* exactly 6 * 50 * 30 * N rows and 8 columns.
C1_RowCount ==
  (Ended /\ caller.n_samples >= 1)
    => /\ caller.temp_scale = "d" =>
            Returned /\ Shape(result) = <<35 * 50 * 30 * caller.n_samples, 8>>
       /\ caller.temp_scale = "w" =>
            Returned /\ Shape(result) = <<6 * 50 * 30 * caller.n_samples, 8>>

C1_Witness ==
  /\ Returned
  /\ caller.temp_scale = "d"
  /\ caller.n_samples = 1
  /\ Shape(result) = <<52500, 8>>

\* C3: in every row of a table make_df returns, target_date is nowcast_date
\* (2024-01-26) shifted by horizon days for scale 'd' and by horizon weeks
\* (7 * horizon days) for scale 'w'; horizon 0 gives the nowcast date itself.
C3_TargetDate ==
  (Returned /\ caller.temp_scale \in {"d", "w"})
    => \A i \in RowIndex(result) :
         LET row  == Iloc(result, i)
             days == IF caller.temp_scale = "d" THEN row.horizon ELSE 7 * row.horizon
         IN  /\ row.nowcast_date = 19748 * 86400
             /\ row.target_date = (19748 + days) * 86400
             /\ row.horizon < 0 => row.target_date < row.nowcast_date
             /\ row.horizon = 0 => row.target_date = row.nowcast_date

C3_Witness ==
  /\ Returned
  /\ caller.temp_scale = "w"
  /\ \E i \in RowIndex(result) :
       /\ Iloc(result, i).horizon = -4
       /\ Iloc(result, i).target_date = (19748 - 28) * 86400

\* the six enumerated cells of a row
Enumerated(row) ==
  <<row.nowcast_date, row.horizon, row.location, row.lineage, row.output_type, row.output_type_id>>

DecimalStrings(n) == {Str(k) : k \in 0..(n - 1)}

HorizonRange(temp_scale) == IF temp_scale = "d" THEN (-27)..7 ELSE (-4)..1

CrossProduct(temp_scale, n) ==
  {19748 * 86400} \X HorizonRange(temp_scale) \X DecimalStrings(50) \X DecimalStrings(30)
    \X {"sample"} \X (0..(n - 1))

\* whether every value of vals is the k-th cell of equally many of the rows
EquallyFrequent(rows, k, vals) ==
  \A v \in vals : Cardinality({r \in rows : r[k] = v}) * Cardinality(vals) = Cardinality(rows)

\* C4: the six enumerated columns of make_df(scale, N) form exactly the
\* cross-product {2024-01-26} x horizons(scale) x {"0".."49"} x {"0".."29"} x
\* {"sample"} x {0..N-1}: every combination is in exactly one row and there is
\* no other row (the rows are as many as the combinations and cover them
\* all), so every location, every lineage and every output_type_id is in
\* equally many rows, and output_type is always "sample".
C4_CrossProduct ==
  (Returned /\ caller.temp_scale \in {"d", "w"} /\ caller.n_samples >= 1)
    => LET all  == CrossProduct(caller.temp_scale, caller.n_samples)
           rows == {Enumerated(Iloc(result, i)) : i \in RowIndex(result)}
       IN  /\ rows = all
           /\ result.nrows = Cardinality(rows)
           /\ EquallyFrequent(rows, 3, DecimalStrings(50))
           /\ EquallyFrequent(rows, 4, DecimalStrings(30))
           /\ EquallyFrequent(rows, 6, 0..(caller.n_samples - 1))
           /\ \A r \in rows : r[5] = "sample"

C4_Witness ==
  /\ Returned
  /\ caller.temp_scale = "w"
  /\ caller.n_samples = 1
  /\ \E i \in RowIndex(result) :
       Enumerated(Iloc(result, i)) = <<19748 * 86400, 1, "49", "29", "sample", 0>>

\* C9: rows are in the lexicographic order of the cross-product, horizon
\* outermost after the date and output_type_id innermost: the row at 0-based
\* index i has output_type_id = i mod N, lineage = (i div N) mod 30, location =
\* (i div (30*N)) mod 50 and horizon = lower bound + i div (50*30*N).
C9_RowOrder ==
  (Returned /\ caller.temp_scale \in {"d", "w"})
    => \A i \in RowIndex(result) :
         LET row == Iloc(result, i)
             N   == caller.n_samples
             low == IF caller.temp_scale = "d" THEN -27 ELSE -4
         IN  /\ row.output_type_id = i % N
             /\ row.lineage = Str((i \div N) % 30)
             /\ row.location = Str((i \div (30 * N)) % 50)
             /\ row.horizon = low + (i \div (50 * 30 * N))
             /\ row.output_type = "sample"
             /\ row.nowcast_date = 19748 * 86400

C9_Witness ==
  /\ Returned
  /\ caller.temp_scale = "d"
  /\ caller.n_samples = 1
  /\ Iloc(result, 1530).horizon = -26
  /\ Iloc(result, 1530).location = "1"
  /\ Iloc(result, 1530).lineage = "0"

\* C5: make_df called with a temporal_scale other than 'd' and 'w' (and a
\* positive sample count) fails with an error and returns no table.
C5_FailsFast ==
  (Ended /\ caller.temp_scale \notin {"d", "w"} /\ caller.n_samples >= 1)
    => (raised # None /\ result = NoDf)

\* C6: make_df called with n_samples <= 0 (and a recognized temporal_scale)
\* reports an error; it never returns an empty (zero-row) table.
C6_RejectsNonPositive ==
  (Ended /\ caller.n_samples <= 0 /\ caller.temp_scale \in {"d", "w"})
    => (raised # None /\ result = NoDf)

(* ----------------------- claims about the script (Spec) ------------------ *)

\* the script has run to its end without an exception
Completed == pc = 0 /\ raised = None /\ caller.site = 4

\* the k-th dfK.shape statement has been executed
ShapeEvaluated(k) ==
  /\ raised = None
  /\ \/ pc = 0 /\ caller.site = 4
     \/ pc >= 31 /\ pc > CallLine(k) + 2
     \/ pc \in {8, 13, 25, 26, 28} /\ caller.site > k

\* C2 as stated: (day-based, 100) gives 35 * 50 * 30 * 100 = 5,250,000 rows
\* and (week-based, 500) gives 450,000 rows.
C2_Original ==
  /\ dfs[1] # NoDf => dfs[1].nrows = 5250000
  /\ dfs[4] # NoDf => dfs[4].nrows = 450000

\* C2 amended: (day-based, 100) gives 35 * 50 * 30 * 100 = 5,250,000 rows and
\* (week-based, 500) gives 6 * 50 * 30 * 500 = 4,500,000 rows.
C2_RowCounts ==
  /\ dfs[1] # NoDf => dfs[1].nrows = 5250000 /\ dfs[1].nrows = 35 * 50 * 30 * 100
  /\ dfs[4] # NoDf => dfs[4].nrows = 4500000 /\ dfs[4].nrows = 6 * 50 * 30 * 500

C2_Witness == dfs[1] # NoDf /\ dfs[4] # NoDf /\ dfs[4].nrows = 4500000

\* C7: after the script has run to completion exactly four files have been
\* written, at the four distinct paths example1..example4 in that order, and
\* file k holds the complete 8-column table built for the k-th of
\* (d, 100), (d, 500), (w, 100), (w, 500); at no time does a path hold the
\* table of another invocation.
C7_FourFiles ==
  LET path == << "parquet-file-sizes/example1.parquet", "parquet-file-sizes/example2.parquet",
                 "parquet-file-sizes/example3.parquet", "parquet-file-sizes/example4.parquet" >>
      args == << <<"d", 100>>, <<"d", 500>>, <<"w", 100>>, <<"w", 500>> >>
      first(k) == IF args[k][1] = "d" THEN -27 ELSE -4
      count(k) == IF args[k][1] = "d" THEN 35 ELSE 6
      BuiltFor(df, k) ==
        /\ df.columns = RecordColumns \o <<"target_date", "value">>
        /\ df.records[2] = [j \in 1..count(k) |-> first(k) + j - 1]
        /\ df.records[6] = [j \in 1..args[k][2] |-> j - 1]
        /\ df.nrows = count(k) * 50 * 30 * args[k][2]
        /\ df.unit_seconds = IF args[k][1] = "d" THEN 86400 ELSE 7 * 86400
  IN  /\ Completed => writes = path
      /\ \A i \in 1..Len(writes) : writes[i] = path[i]
      /\ \A k \in 1..4 :
           IF k <= Len(writes)
           THEN /\ fs.files[path[k]].kind = "table"
                /\ fs.files[path[k]].table = dfs[k]
                /\ BuiltFor(fs.files[path[k]].table, k)
           ELSE fs.files[path[k]].kind # "table"

C7_Witness ==
  /\ Completed
  /\ Len(writes) = 4
  /\ fs.files["parquet-file-sizes/example4.parquet"] = Written(dfs[4])
  /\ Shape(dfs[4]) = <<4500000, 8>>

\* C8: for each of the four invocations, running the script reports the
\* table's shape as printed or logged output, once per table, after the table
\* is built.
C8_ShapeReported ==
  \A k \in Calls :
    ShapeEvaluated(k) => (Len(displayed) >= k /\ displayed[k] = Shape(dfs[k]))

MakeDfLines == {8, 13, 25, 26, 28}

====
